---- MODULE Spec2Model ----
(***************************************************************************)
(* Model of genie::XSecSplineList (Framework/Utils/XSecSplineList.cxx):    *)
(* the process-wide cross-section spline list, its knot planning and       *)
(* spline building in CreateSpline, and its XML save / streaming load.     *)
(*                                                                         *)
(* Doubles are modelled exactly: <<"R", n, d>> is the rational n/d,        *)
(* <<"P", n, d>> is 10^(n/d) for a non-integer exponent n/d, and           *)
(* <<"NaN", 0, 1>> is the IEEE not-a-number a 0*inf product gives.         *)
(* Strings are sequences of one-character strings.                         *)
(***************************************************************************)
EXTENDS Integers, Sequences, FiniteSets, TLC

VARIABLES
  fInstance,    \* the static pointer to the list: 0, or the number of the list made
  fSplineMap,   \* map<string, Spline *>: the nodes <<key, spline>> in key order
  fInitSet,     \* set<string>: the keys a load inserted
  fUseLogE, fNKnots, fEmin, fEmax,
  files,        \* the file system: path -> document
  probeP4,      \* interaction id -> the probe four-momentum it carries
  proc,         \* "running", or how the process ended: "crashed", "aborted"
  last,         \* the most recent call: its arguments and how it ended
  builtBy,      \* history: key -> "create" or "load", who built the entry
  lastDocKeys,  \* history: the spline names of the document last loaded
  createdSince, \* history: the keys CreateSpline inserted since the last load
  loadedSince,  \* history: the spline names of the documents loaded since the
                \* list was last cleared
  calls         \* history: how many calls were made

vars == <<fInstance, fSplineMap, fInitSet, fUseLogE, fNKnots, fEmin, fEmax, files, probeP4,
          proc, last, builtBy, lastDocKeys, createdSince, loadedSince, calls>>

(***************************************************************************)
(* Bound of the exploration: how many calls one run makes.                 *)
(***************************************************************************)
MaxCalls == 4

(***************************************************************************)
(* Exact arithmetic on doubles.                                            *)
(***************************************************************************)
Abs(n) == IF n < 0 THEN -n ELSE n

RECURSIVE GCD(_, _)
GCD(a, b) == IF b = 0 THEN a ELSE GCD(b, a % b)

Rat(n, d) ==
  LET s == IF d < 0 THEN -1 ELSE 1
      g == GCD(Abs(n), Abs(d))
  IN  <<"R", (s * n) \div g, (s * d) \div g>>

RInt(n) == <<"R", n, 1>>
R0 == RInt(0)
NaN == <<"NaN", 0, 1>>

RAdd(x, y) == Rat(x[2] * y[3] + y[2] * x[3], x[3] * y[3])
RSub(x, y) == Rat(x[2] * y[3] - y[2] * x[3], x[3] * y[3])
RMulInt(x, k) == Rat(x[2] * k, x[3])
RDivInt(x, k) == Rat(x[2], x[3] * k)
RLess(x, y) == x[2] * y[3] < y[2] * x[3]
RMax(x, y) == IF RLess(x, y) THEN y ELSE x

RECURSIVE IntPow10(_)
IntPow10(k) == IF k = 0 THEN 1 ELSE 10 * IntPow10(k - 1)

\* 10^j for an integer j
Pow10Int(j) == IF j >= 0 THEN RInt(IntPow10(j)) ELSE Rat(1, IntPow10(-j))

\* TMath::Power(10., q) for a rational exponent q
Power10(q) == IF q[3] = 1 THEN Pow10Int(q[2]) ELSE <<"P", q[2], q[3]>>

\* the exponents the energies of this model are powers of ten of
Decades == -3 .. 3

\* TMath::Log10(x) for x a power of ten
Log10(x) == RInt(CHOOSE j \in Decades : Pow10Int(j) = x)

(***************************************************************************)
(* Strings.                                                                *)
(***************************************************************************)
Alphabet == <<"/", "A", "X", "c", "n", "p">>

Ord(ch) == CHOOSE i \in 1 .. Len(Alphabet) : Alphabet[i] = ch

\* std::string operator< : lexicographic order
RECURSIVE StrLess(_, _)
StrLess(s, t) ==
  IF t = <<>> THEN FALSE
  ELSE IF s = <<>> THEN TRUE
  ELSE IF Ord(Head(s)) # Ord(Head(t)) THEN Ord(Head(s)) < Ord(Head(t))
  ELSE StrLess(Tail(s), Tail(t))

EmptyString == <<>>

(***************************************************************************)
(* The collaborators CreateSpline consumes: cross-section algorithms       *)
(* (Id().Name(), Id().Config(), Integral) and interactions (AsString(),    *)
(* PhaseSpace().Threshold(), the probe's mass and four-momentum).  A null  *)
(* pointer is the object with id "null".                                   *)
(***************************************************************************)
NullAlg == [id |-> "null", name |-> <<>>, config |-> <<>>]

Algs == { [id |-> "a1", name |-> <<"A">>, config |-> <<"c">>],
          [id |-> "a2", name |-> <<"A">>, config |-> <<"c">>] }

\* the algorithms splines are created with
CreateAlgs == { a \in Algs : a.id = "a1" }

NullInt == [id |-> "null", str |-> <<>>, thr |-> R0, mass |-> R0]

Interactions == { [id |-> "i1", str |-> <<"n">>, thr |-> R0, mass |-> R0],
                  [id |-> "i2", str |-> <<"p">>, thr |-> RInt(1), mass |-> Rat(1, 10)] }

IntIds == { i.id : i \in Interactions }

\* TLorentzVector p4(0,0,E,E), with Pz replaced when the probe is massive;
\* <<"Pz", E, m>> stands for Sqrt(Max(0, E*E - m*m))
ProbeP4(E, pr_mass) ==
  IF RLess(R0, pr_mass) THEN <<R0, R0, <<"Pz", E, pr_mass>>, E>>
  ELSE <<R0, R0, E, E>>

ZeroP4 == <<R0, R0, R0, R0>>

\* alg->Integral(interaction): a value fixed by the algorithm, the
\* interaction and the probe four-momentum the interaction carries
Integral(alg, interaction, p4) == <<"S", alg.name \o alg.config, interaction.str, p4>>

(***************************************************************************)
(* Spline(nknots, E, xsec): the knots, in order.                           *)
(***************************************************************************)
Spline(nknots, E, xsec) == [k \in 1 .. nknots |-> <<E[k], xsec[k]>>]

(***************************************************************************)
(* map<string, Spline *> fSplineMap as the sequence of its nodes in        *)
(* iteration (key) order.                                                  *)
(***************************************************************************)
MapCount(m, key) == Cardinality({i \in 1 .. Len(m) : m[i][1] = key})

MapFind(m, key) == m[CHOOSE i \in 1 .. Len(m) : m[i][1] = key][2]

MapKeys(m) == { m[i][1] : i \in 1 .. Len(m) }

\* an insert that adds a node whether or not the key is there
MapInsertAlways(m, key, spline) ==
  LET pos == Cardinality({i \in 1 .. Len(m) : StrLess(m[i][1], key)})
  IN  SubSeq(m, 1, pos) \o <<<<key, spline>>>> \o SubSeq(m, pos + 1, Len(m))

\* std::map::insert(value_type(key, spline)): no effect when the key is there
MapInsert(m, key, spline) ==
  IF MapCount(m, key) > 0 THEN m
  ELSE LET pos == Cardinality({i \in 1 .. Len(m) : StrLess(m[i][1], key)})
       IN  SubSeq(m, 1, pos) \o <<<<key, spline>>>> \o SubSeq(m, pos + 1, Len(m))

(***************************************************************************)
(* XSecSplineList::BuildSplineKey                                          *)
(***************************************************************************)
\* a key without the configuration name
BuildSplineKeyNoConfig(alg, interaction) ==
  IF alg = NullAlg THEN EmptyString
  ELSE IF interaction = NullInt THEN EmptyString
  ELSE alg.name \o <<"/">> \o interaction.str

BuildSplineKey(alg, interaction) ==
  IF alg = NullAlg THEN EmptyString
  ELSE IF interaction = NullInt THEN EmptyString
  ELSE alg.name \o <<"/">> \o alg.config \o <<"/">> \o interaction.str

(***************************************************************************)
(* XSecSplineList::CreateSpline, the knot distribution (lines 154-175)     *)
(* for the effective nknots, e_min and e_max.                              *)
(***************************************************************************)
\* four knots below the threshold instead of five
NKnotsBelowFour(e_min, Ethr) == IF RLess(e_min, Ethr) THEN 4 ELSE 0

NKnotsBelow(e_min, Ethr) == IF RLess(e_min, Ethr) THEN 5 ELSE 0

\* the knot distribution with the step above the threshold taken over nka
\* intervals instead of nka - 1
KnotEnergiesOpenEnd(nknots, e_min, e_max, Ethr, uselog) ==
  LET nkb == NKnotsBelow(e_min, Ethr)
      nka == nknots - nkb
      dEb == IF RLess(e_min, Ethr) THEN RDivInt(RSub(Ethr, e_min), nkb) ELSE R0
      E0  == RMax(Ethr, e_min)
      below(i) == RAdd(e_min, RMulInt(dEb, i))
      above(i) ==
        IF nka = 0 THEN NaN
        ELSE IF uselog
        THEN Power10(RAdd(Log10(E0),
                 RMulInt(RDivInt(RSub(Log10(e_max), Log10(E0)), nka), i)))
        ELSE RAdd(E0, RMulInt(RDivInt(RSub(e_max, E0), nka), i))
  IN  [k \in 1 .. nknots |-> IF k - 1 < nkb THEN below(k - 1) ELSE above(k - 1 - nkb)]

KnotEnergies(nknots, e_min, e_max, Ethr, uselog) ==
  LET nkb == NKnotsBelow(e_min, Ethr)
      nka == nknots - nkb
      dEb == IF RLess(e_min, Ethr) THEN RDivInt(RSub(Ethr, e_min), nkb) ELSE R0
      E0  == RMax(Ethr, e_min)
      below(i) == RAdd(e_min, RMulInt(dEb, i))
      above(i) ==
        IF nka - 1 = 0 THEN NaN
        ELSE IF uselog
        THEN Power10(RAdd(Log10(E0),
                 RMulInt(RDivInt(RSub(Log10(e_max), Log10(E0)), nka - 1), i)))
        ELSE RAdd(E0, RMulInt(RDivInt(RSub(e_max, E0), nka - 1), i))
  IN  [k \in 1 .. nknots |-> IF k - 1 < nkb THEN below(k - 1) ELSE above(k - 1 - nkb)]

\* the largest index of E[] written by the two knot loops
MaxIndexWritten(nknots, e_min, Ethr) ==
  LET nkb == NKnotsBelow(e_min, Ethr)
  IN  (IF nknots > nkb THEN nknots ELSE nkb) - 1

\* the calls the loop over the knots makes on the interaction and on the
\* algorithm (lines 188-189), in the order made: <<call, knot, p4>> with p4
\* the probe four-momentum the interaction carries when the call returns
XSecCall(interaction, E, j) ==
  LET k == (j + 1) \div 2
  IN  <<IF j % 2 = 1 THEN "SetProbeP4" ELSE "Integral", k, ProbeP4(E[k], interaction.mass)>>

XSecCalls(interaction, E) == [j \in 1 .. 2 * Len(E) |-> XSecCall(interaction, E, j)]

\* the cross sections of the loop over the knots (lines 180-193): what
\* Integral gives with the probe the interaction carries at its call
KnotXSecs(alg, interaction, E) ==
  [k \in 1 .. Len(E) |-> Integral(alg, interaction, XSecCall(interaction, E, 2 * k)[3])]

(***************************************************************************)
(* XML documents as the node stream xmlTextReaderRead delivers: each node  *)
(* has the name, node type, depth, text value and attributes the reader    *)
(* reports; ret is what the read after the last node returns (0 at the     *)
(* end of the document, -1 on a parse error).  Text is <<"dec", v>> for    *)
(* the decimal text of v and <<"ws", 0>> for white space.                  *)
(***************************************************************************)
kNodeTypeStartElement == 1
kNodeTypeEndElement == 15
kKnotX == 0
kKnotY == 1

DecimalText(v) == <<"dec", v>>
WhiteSpace == <<"ws", R0>>
NoAttrs == [a |-> <<>>, b |-> WhiteSpace]

\* atof / atoi of a text: 0 when the text holds no number
Atof(t) == IF t[1] = "dec" THEN t[2] ELSE R0
Atoi(t) == IF t[1] = "dec" /\ t[2][1] = "R" THEN t[2][2] \div t[2][3] ELSE 0

Node(name, type, depth, value, attrs) ==
  [name |-> name, type |-> type, depth |-> depth, value |-> value, attrs |-> attrs]

StartTag(name, depth, attrs) == Node(name, kNodeTypeStartElement, depth, WhiteSpace, attrs)
EndTag(name, depth) == Node(name, kNodeTypeEndElement, depth, WhiteSpace, NoAttrs)
TextNode(depth, v) == Node("#text", 3, depth, DecimalText(v), NoAttrs)
BlankNode(depth) == Node("#text", 14, depth, WhiteSpace, NoAttrs)
CommentNode == Node("#comment", 8, 0, WhiteSpace, NoAttrs)

\* <genie_xsec_spline_list version=... uselog=...>: a is version, b is uselog
RootTag(name, uselog) == StartTag(name, 0, [a |-> <<"2", ".", "0", "0">>, b |-> DecimalText(RInt(uselog))])
\* <spline name=... nknots=...>: a is name, b is nknots
SplineTag(key, nknots) == StartTag("spline", 1, [a |-> key, b |-> DecimalText(RInt(nknots))])

\* Spline::SaveAsXml(outxml, "E", "xsec", key, true): one spline block with
\* one <knot> <E> e </E> <xsec> x </xsec> </knot> line per knot
SplineSaveAsXml(spline, key) ==
  LET n == Len(spline)
      knotNode(k, j) ==
        CASE j = 1 -> StartTag("knot", 2, NoAttrs)
          [] j = 2 -> StartTag("E", 3, NoAttrs)
          [] j = 3 -> TextNode(4, spline[k][1])
          [] j = 4 -> EndTag("E", 3)
          [] j = 5 -> StartTag("xsec", 3, NoAttrs)
          [] j = 6 -> TextNode(4, spline[k][2])
          [] j = 7 -> EndTag("xsec", 3)
          [] j = 8 -> EndTag("knot", 2)
          [] OTHER -> BlankNode(2)
  IN  [p \in 1 .. 9 * n + 2 |->
         IF p = 1 THEN SplineTag(key, n)
         ELSE IF p = 9 * n + 2 THEN EndTag("spline", 1)
         ELSE knotNode(((p - 2) \div 9) + 1, ((p - 2) % 9) + 1)]

RECURSIVE SaveSplines(_, _, _, _)
SaveSplines(m, initset, save_init, i) ==
  IF i > Len(m) THEN <<>>
  ELSE LET key == m[i][1]
           from_init_set == key \in initset
       IN  (IF from_init_set /\ ~save_init THEN <<>> ELSE SplineSaveAsXml(m[i][2], key))
           \o SaveSplines(m, initset, save_init, i + 1)

\* a document whose root element says uselog="1" whatever fUseLogE is
SavedDocumentLogOn(m, initset, uselog, save_init) ==
  [exists |-> TRUE,
   nodes |-> <<CommentNode, RootTag("genie_xsec_spline_list", 1), BlankNode(1)>>
             \o SaveSplines(m, initset, save_init, 1)
             \o <<EndTag("genie_xsec_spline_list", 0)>>,
   ret |-> 0]

\* what SaveAsXml writes to the file
SavedDocument(m, initset, uselog, save_init) ==
  [exists |-> TRUE,
   nodes |-> <<CommentNode, RootTag("genie_xsec_spline_list", IF uselog THEN 1 ELSE 0), BlankNode(1)>>
             \o SaveSplines(m, initset, save_init, 1)
             \o <<EndTag("genie_xsec_spline_list", 0)>>,
   ret |-> 0]

NoFile == [exists |-> FALSE, nodes |-> <<>>, ret |-> 0]

(***************************************************************************)
(* XSecSplineList::LoadFromXml, the body of the read loop (lines 294-368)  *)
(* on the loop's local state ld:                                           *)
(*   status      "reading", or the status an early return gave             *)
(*   val_type, iknot, nknots, spline_name, E, xsec   the locals            *)
(*   buf         "null", "live" or "freed": what E and xsec point to       *)
(*   map, initset, uselog   fSplineMap, fInitSet, fUseLogE                 *)
(*   ub          an access outside a live buffer has happened              *)
(* A double that was allocated and never assigned holds Indeterminate.     *)
(***************************************************************************)
Indeterminate == <<"U", 0, 1>>

LoadLocals(m, initset, uselog) ==
  [status |-> "reading", val_type |-> -1, iknot |-> 0, nknots |-> 0,
   spline_name |-> EmptyString, E |-> <<>>, xsec |-> <<>>, buf |-> "null",
   map |-> m, initset |-> initset, uselog |-> uselog, ub |-> FALSE]

\* OnRoot without the test of the root element's name
OnRootAnyName(ld, nd) ==
  IF nd.depth = 0 /\ nd.type = kNodeTypeStartElement
  THEN [ld EXCEPT !.uselog = (Atoi(nd.attrs.b) = 1)]
  ELSE ld

\* OnRoot with SetLogE(true) whatever the uselog attribute says
OnRootLogOn(ld, nd) ==
  IF nd.depth = 0 /\ nd.type = kNodeTypeStartElement
  THEN IF nd.name # "genie_xsec_spline_list"
       THEN [ld EXCEPT !.status = "kXmlInvalidRoot"]
       ELSE [ld EXCEPT !.uselog = TRUE]
  ELSE ld

\* lines 299-321
OnRoot(ld, nd) ==
  IF nd.depth = 0 /\ nd.type = kNodeTypeStartElement
  THEN IF nd.name # "genie_xsec_spline_list"
       THEN [ld EXCEPT !.status = "kXmlInvalidRoot"]
       ELSE [ld EXCEPT !.uselog = (Atoi(nd.attrs.b) = 1)]
  ELSE ld

\* lines 323-340
OnSplineStart(ld, nd) ==
  IF nd.name = "spline" /\ nd.type = kNodeTypeStartElement
  THEN LET n == Atoi(nd.attrs.b)
       IN  [ld EXCEPT !.spline_name = nd.attrs.a, !.nknots = n, !.iknot = 0,
                      !.E = [k \in 1 .. n |-> Indeterminate],
                      !.xsec = [k \in 1 .. n |-> Indeterminate],
                      !.buf = "live"]
  ELSE ld

\* lines 341-342
OnValueTag(ld, nd) ==
  IF nd.name = "E" /\ nd.type = kNodeTypeStartElement THEN [ld EXCEPT !.val_type = kKnotX]
  ELSE IF nd.name = "xsec" /\ nd.type = kNodeTypeStartElement THEN [ld EXCEPT !.val_type = kKnotY]
  ELSE ld

\* lines 344-347
OnText(ld, nd) ==
  IF nd.name = "#text" /\ nd.depth = 4 /\ ld.val_type \in {kKnotX, kKnotY}
  THEN IF ld.buf = "live" /\ 0 <= ld.iknot /\ ld.iknot < ld.nknots
       THEN IF ld.val_type = kKnotX
            THEN [ld EXCEPT !.E[ld.iknot + 1] = Atof(nd.value)]
            ELSE [ld EXCEPT !.xsec[ld.iknot + 1] = Atof(nd.value)]
       ELSE [ld EXCEPT !.ub = TRUE]
  ELSE ld

\* lines 348-350
OnKnotEnd(ld, nd) ==
  IF nd.name = "knot" /\ nd.type = kNodeTypeEndElement
  THEN [ld EXCEPT !.iknot = ld.iknot + 1]
  ELSE ld

\* OnSplineEnd without the fInitSet.insert of line 364
OnSplineEndUnmarked(ld, nd) ==
  IF nd.name = "spline" /\ nd.type = kNodeTypeEndElement
  THEN IF ld.buf = "live"
       THEN [ld EXCEPT !.map = MapInsert(ld.map, ld.spline_name,
                                         Spline(ld.nknots, ld.E, ld.xsec)),
                       !.buf = "freed"]
       ELSE [ld EXCEPT !.ub = TRUE]
  ELSE ld

\* lines 351-365
OnSplineEnd(ld, nd) ==
  IF nd.name = "spline" /\ nd.type = kNodeTypeEndElement
  THEN IF ld.buf = "live"
       THEN [ld EXCEPT !.map = MapInsert(ld.map, ld.spline_name,
                                         Spline(ld.nknots, ld.E, ld.xsec)),
                       !.initset = ld.initset \cup {ld.spline_name},
                       !.buf = "freed"]
       ELSE [ld EXCEPT !.ub = TRUE]
  ELSE ld

ReadStep(ld, nd) ==
  IF ld.status # "reading" THEN ld
  ELSE LET l1 == OnRoot(ld, nd)
       IN  IF l1.status # "reading" THEN l1
           ELSE OnSplineEnd(OnKnotEnd(OnText(OnValueTag(OnSplineStart(l1, nd), nd), nd), nd), nd)

\* the while loop over nodes[lo .. hi]
RECURSIVE ReadLoop(_, _, _, _)
ReadLoop(ld, nodes, lo, hi) ==
  IF ld.status # "reading" \/ lo > hi THEN ld
  ELSE IF lo = hi THEN ReadStep(ld, nodes[lo])
  ELSE LET mid == (lo + hi) \div 2
       IN  ReadLoop(ReadLoop(ld, nodes, lo, mid), nodes, mid + 1, hi)

\* LoadFromXmlResult without the clear() of line 277
LoadFromXmlResultNoClear(m, initset, uselog, file, keep) ==
  LET ld0 == LoadLocals(m, initset, uselog)
  IN  IF file.exists
      THEN LET ld == ReadLoop(ld0, file.nodes, 1, Len(file.nodes))
           IN  IF ld.status # "reading" THEN ld
               ELSE IF file.ret # 0 THEN [ld EXCEPT !.status = "kXmlNotParsed"]
               ELSE [ld EXCEPT !.status = "kXmlOK"]
      ELSE [ld0 EXCEPT !.status = "kXmlOK"]

\* LoadFromXmlResult with a clear() that does not test keep
LoadFromXmlResultAlwaysClear(m, initset, uselog, file, keep) ==
  LET ld0 == LoadLocals(<<>>, initset, uselog)
  IN  IF file.exists
      THEN LET ld == ReadLoop(ld0, file.nodes, 1, Len(file.nodes))
           IN  IF ld.status # "reading" THEN ld
               ELSE IF file.ret # 0 THEN [ld EXCEPT !.status = "kXmlNotParsed"]
               ELSE [ld EXCEPT !.status = "kXmlOK"]
      ELSE [ld0 EXCEPT !.status = "kXmlOK"]

\* lines 277-383: the locals and the status LoadFromXml ends with
LoadFromXmlResult(m, initset, uselog, file, keep) ==
  LET m0 == IF ~keep THEN <<>> ELSE m
      ld0 == LoadLocals(m0, initset, uselog)
  IN  IF file.exists
      THEN LET ld == ReadLoop(ld0, file.nodes, 1, Len(file.nodes))
           IN  IF ld.status # "reading" THEN ld
               ELSE IF file.ret # 0 THEN [ld EXCEPT !.status = "kXmlNotParsed"]
               ELSE [ld EXCEPT !.status = "kXmlOK"]
      ELSE [ld0 EXCEPT !.status = "kXmlOK"]

\* a GetSplineKeys that walks the map from its end
GetSplineKeysReversed(m) == [i \in 1 .. Len(m) |-> m[Len(m) + 1 - i][1]]

\* XSecSplineList::GetSplineKeys
GetSplineKeys(m) == [i \in 1 .. Len(m) |-> m[i][1]]

\* XSecSplineList::SplineExists(string key)
SplineExists(m, key) == MapCount(m, key) = 1

\* a GetSpline that finds nothing
GetSplineNull(m, key) == <<>>

\* XSecSplineList::GetSpline(string key): <<>> is the null pointer
GetSpline(m, key) == IF SplineExists(m, key) THEN <<MapFind(m, key)>> ELSE <<>>

(***************************************************************************)
(* The files and the arguments the calls are made with.                    *)
(***************************************************************************)
LoadedSpline == <<<<RInt(1), RInt(2)>>, <<RInt(2), RInt(3)>>>>

FileDocument(root, uselog, m) ==
  [exists |-> TRUE,
   nodes |-> <<CommentNode, RootTag(root, uselog), BlankNode(1)>>
             \o SaveSplines(m, {}, TRUE, 1) \o <<EndTag(root, 0)>>,
   ret |-> 0]

Paths == {"a.xml", "b.xml", "badroot.xml", "out.xml"}

WritePaths == {"out.xml", "nodir/out.xml"}

\* a file system in which every path can be created
CreatableAlways(filename) == TRUE

\* ofstream can create the file
Creatable(filename) == filename # "nodir/out.xml"

InitialFiles ==
  [p \in Paths |->
     CASE p = "a.xml" -> FileDocument("genie_xsec_spline_list", 2, <<<<<<"X">>, LoadedSpline>>>>)
       [] p = "b.xml" -> FileDocument("genie_xsec_spline_list", 1,
                                      <<<<<<"A", "/", "c", "/", "n">>, LoadedSpline>>>>)
       [] p = "badroot.xml" -> FileDocument("spline_list", 1, <<<<<<"X">>, LoadedSpline>>>>)
       [] OTHER -> NoFile]

\* the spline block names of a document
DocKeys(file) ==
  { file.nodes[i].attrs.a :
      i \in { j \in 1 .. Len(file.nodes) :
                file.nodes[j].name = "spline" /\ file.nodes[j].type = kNodeTypeStartElement } }

\* (nknots, e_min, e_max) as passed to CreateSpline
CreateArgs == { <<12, Rat(1, 10), RInt(10)>>,
                <<12, RInt(10), Rat(1, 10)>> }

\* the same, with the defaults of the declaration among them
ConfigCreateArgs == { <<-1, RInt(-1), RInt(-1)>>,
                      <<12, RInt(-1), RInt(-1)>>,
                      <<5, Rat(1, 10), RInt(10)>> }

NKnotsArgs == {-1, 0, 9, 10, 12}
MinEArgs == {R0, Rat(1, 10), RInt(1000)}
MaxEArgs == {RInt(-1), RInt(10)}

\* a call: its arguments (alg, int, nknots, e_min, e_max, filename, flag), what
\* it gave (status, key, outcome), and of the list as the call found it: had
\* (the key had an entry), nkeys (the number of entries), repeat (the call
\* before was the same call with the same arguments); and what a query gave:
\* ret (GetSpline: <<>> for the null pointer, <<spline>> otherwise), found
\* (SplineExists), keys (GetSplineKeys, Print), opts (Print), ptr (Instance)
\* and log (CreateSpline: the calls made on the interaction and the algorithm)
NoCall ==
  [op |-> "none", alg |-> NullAlg, int |-> NullInt, nknots |-> 0,
   e_min |-> R0, e_max |-> R0, filename |-> "", flag |-> FALSE,
   status |-> "", key |-> EmptyString, outcome |-> "returned",
   had |-> FALSE, nkeys |-> 0, repeat |-> FALSE,
   ret |-> <<>>, found |-> FALSE, keys |-> <<>>, opts |-> <<>>, ptr |-> 0,
   log |-> <<>>]

SameCall(c, d) ==
  /\ c.op = d.op /\ c.alg = d.alg /\ c.int = d.int /\ c.nknots = d.nknots
  /\ c.e_min = d.e_min /\ c.e_max = d.e_max /\ c.filename = d.filename /\ c.flag = d.flag

(***************************************************************************)
(* XSecSplineList::XSecSplineList, in a process that has made its list     *)
(***************************************************************************)
Init ==
  /\ fInstance = 1
  /\ fSplineMap = <<>>
  /\ fInitSet = {}
  /\ fUseLogE = TRUE
  /\ fNKnots = 100
  /\ fEmin = Rat(1, 100)
  /\ fEmax = RInt(100)
  /\ files = InitialFiles
  /\ probeP4 = [i \in IntIds |-> ZeroP4]
  /\ proc = "running"
  /\ last = NoCall
  /\ builtBy = [k \in {} |-> "load"]
  /\ lastDocKeys = {}
  /\ createdSince = {}
  /\ loadedSince = {}
  /\ calls = 0

ListUnchanged ==
  UNCHANGED <<fSplineMap, fInitSet, builtBy, lastDocKeys, createdSince, loadedSince>>
DefaultsUnchanged == UNCHANGED <<fUseLogE, fNKnots, fEmin, fEmax>>
\* the process dies in the call: nothing it held is seen again
Dies(call, how) ==
  /\ proc' = how
  /\ last' = [call EXCEPT !.outcome = how]
  /\ ListUnchanged /\ DefaultsUnchanged
  /\ UNCHANGED <<files, probeP4, fInstance>>

(***************************************************************************)
(* XSecSplineList::Instance.  Before the first call the static pointer is  *)
(* 0 and there is no list (InitStatic shows its fields as zeros); the      *)
(* first call makes the list with the constructor's values.                *)
(***************************************************************************)
InitStatic ==
  /\ fInstance = 0
  /\ fSplineMap = <<>>
  /\ fInitSet = {}
  /\ fUseLogE = FALSE
  /\ fNKnots = 0
  /\ fEmin = R0
  /\ fEmax = R0
  /\ files = InitialFiles
  /\ probeP4 = [i \in IntIds |-> ZeroP4]
  /\ proc = "running"
  /\ last = NoCall
  /\ builtBy = [k \in {} |-> "load"]
  /\ lastDocKeys = {}
  /\ createdSince = {}
  /\ loadedSince = {}
  /\ calls = 0

\* an Instance that makes a new list on every call
InstanceAlwaysNew ==
  /\ proc = "running" /\ calls < MaxCalls /\ calls' = calls + 1
  /\ fInstance' = fInstance + 1
  /\ fSplineMap' = <<>> /\ fInitSet' = {}
  /\ fUseLogE' = TRUE /\ fNKnots' = 100
  /\ fEmin' = Rat(1, 100) /\ fEmax' = RInt(100)
  /\ builtBy' = [k \in {} |-> "load"] /\ lastDocKeys' = {} /\ createdSince' = {}
  /\ loadedSince' = {}
  /\ last' = [NoCall EXCEPT !.op = "Instance", !.ptr = fInstance']
  /\ UNCHANGED <<files, probeP4, proc>>

Instance ==
  /\ proc = "running" /\ calls < MaxCalls /\ calls' = calls + 1
  /\ IF fInstance = 0
     THEN /\ fInstance' = 1
          /\ fSplineMap' = <<>> /\ fInitSet' = {}
          /\ fUseLogE' = TRUE /\ fNKnots' = 100
          /\ fEmin' = Rat(1, 100) /\ fEmax' = RInt(100)
          /\ builtBy' = [k \in {} |-> "load"] /\ lastDocKeys' = {} /\ createdSince' = {}
          /\ loadedSince' = {}
     ELSE /\ UNCHANGED fInstance
          /\ ListUnchanged /\ DefaultsUnchanged
  /\ last' = [NoCall EXCEPT !.op = "Instance", !.ptr = fInstance']
  /\ UNCHANGED <<files, probeP4, proc>>

(***************************************************************************)
(* The setters.                                                            *)
(***************************************************************************)
\* a SetLogE that drops the splines built under the other setting
SetLogEClearing(on) ==
  /\ proc = "running" /\ calls < MaxCalls /\ calls' = calls + 1
  /\ fUseLogE' = on
  /\ last' = [NoCall EXCEPT !.op = "SetLogE", !.flag = on]
  /\ fSplineMap' = <<>> /\ fInitSet' = {} /\ builtBy' = [k \in {} |-> "load"]
  /\ UNCHANGED <<lastDocKeys, createdSince, loadedSince>>
  /\ UNCHANGED <<fNKnots, fEmin, fEmax, files, probeP4, proc, fInstance>>

SetLogE(on) ==
  /\ proc = "running" /\ calls < MaxCalls /\ calls' = calls + 1
  /\ fUseLogE' = on
  /\ last' = [NoCall EXCEPT !.op = "SetLogE", !.flag = on]
  /\ ListUnchanged
  /\ UNCHANGED <<fNKnots, fEmin, fEmax, files, probeP4, proc, fInstance>>

\* SetNKnots without the minimum of line 209
SetNKnotsUnclamped(nk) ==
  /\ proc = "running" /\ calls < MaxCalls /\ calls' = calls + 1
  /\ fNKnots' = nk
  /\ last' = [NoCall EXCEPT !.op = "SetNKnots", !.nknots = nk]
  /\ ListUnchanged
  /\ UNCHANGED <<fUseLogE, fEmin, fEmax, files, probeP4, proc, fInstance>>

SetNKnots(nk) ==
  /\ proc = "running" /\ calls < MaxCalls /\ calls' = calls + 1
  /\ fNKnots' = IF nk < 10 THEN 10 ELSE nk
  /\ last' = [NoCall EXCEPT !.op = "SetNKnots", !.nknots = nk]
  /\ ListUnchanged
  /\ UNCHANGED <<fUseLogE, fEmin, fEmax, files, probeP4, proc, fInstance>>

\* a SetMinE without the test of line 214
SetMinEUnchecked(Ev) ==
  /\ proc = "running" /\ calls < MaxCalls /\ calls' = calls + 1
  /\ fEmin' = Ev
  /\ last' = [NoCall EXCEPT !.op = "SetMinE", !.e_min = Ev]
  /\ ListUnchanged
  /\ UNCHANGED <<fUseLogE, fNKnots, fEmax, files, probeP4, proc, fInstance>>

SetMinE(Ev) ==
  /\ proc = "running" /\ calls < MaxCalls /\ calls' = calls + 1
  /\ fEmin' = IF RLess(R0, Ev) THEN Ev ELSE fEmin
  /\ last' = [NoCall EXCEPT !.op = "SetMinE", !.e_min = Ev]
  /\ ListUnchanged
  /\ UNCHANGED <<fUseLogE, fNKnots, fEmax, files, probeP4, proc, fInstance>>

SetMaxE(Ev) ==
  /\ proc = "running" /\ calls < MaxCalls /\ calls' = calls + 1
  /\ fEmax' = IF RLess(R0, Ev) THEN Ev ELSE fEmax
  /\ last' = [NoCall EXCEPT !.op = "SetMaxE", !.e_max = Ev]
  /\ ListUnchanged
  /\ UNCHANGED <<fUseLogE, fNKnots, fEmin, files, probeP4, proc, fInstance>>

(***************************************************************************)
(* A call of BuildSplineKey by a client.                                   *)
(***************************************************************************)
BuildSplineKeyCall(alg, interaction) ==
  /\ proc = "running" /\ calls < MaxCalls /\ calls' = calls + 1
  /\ last' = [NoCall EXCEPT !.op = "BuildSplineKey", !.alg = alg, !.int = interaction,
                            !.key = BuildSplineKey(alg, interaction),
                            !.nkeys = Len(fSplineMap)]
  /\ ListUnchanged /\ DefaultsUnchanged
  /\ UNCHANGED <<files, probeP4, proc, fInstance>>

(***************************************************************************)
(* XSecSplineList::CreateSpline.  The arrays xsec[nknots] and E[nknots]    *)
(* are sized with nknots as passed (line 125), before the fall-back to the *)
(* list-wide values; an index outside them is undefined behaviour, after   *)
(* which the process either dies or goes on as if the arrays were large    *)
(* enough.  A null alg is dereferenced at line 129, a null interaction at  *)
(* line 150, and the assert of line 139 aborts.                            *)
(***************************************************************************)
EffEmin(e_min) == IF RLess(e_min, R0) THEN fEmin ELSE e_min
EffEmax(e_max) == IF RLess(e_max, R0) THEN fEmax ELSE e_max
EffNKnots(nknots) == IF nknots <= 2 THEN fNKnots ELSE nknots

\* a build in which the assert of line 139 tests nothing
AssertIgnored(e_min, e_max) == TRUE

\* assert(e_min < e_max), on the values after the fall-back
AssertHolds(e_min, e_max) == RLess(EffEmin(e_min), EffEmax(e_max))

\* the spline of lines 154-197
CreatedSpline(alg, interaction, nknots, e_min, e_max) ==
  LET E == KnotEnergies(EffNKnots(nknots), EffEmin(e_min), EffEmax(e_max),
                        interaction.thr, fUseLogE)
  IN  Spline(EffNKnots(nknots), E, KnotXSecs(alg, interaction, E))

CreateSpline(alg, interaction, nknots, e_min, e_max) ==
  /\ proc = "running" /\ calls < MaxCalls /\ calls' = calls + 1
  /\ LET key  == BuildSplineKey(alg, interaction)
         args == [NoCall EXCEPT !.op = "CreateSpline", !.alg = alg, !.int = interaction,
                                !.nknots = nknots, !.e_min = e_min, !.e_max = e_max]
         call == [args EXCEPT !.key = key, !.had = MapCount(fSplineMap, key) > 0,
                              !.nkeys = Len(fSplineMap), !.repeat = SameCall(args, last)]
     IN  IF alg = NullAlg THEN Dies(call, "crashed")
         ELSE IF ~AssertHolds(e_min, e_max)
         THEN \/ Dies(call, "aborted")
              \/ /\ nknots <= 0
                 /\ Dies(call, "crashed")
         ELSE IF interaction = NullInt THEN Dies(call, "crashed")
         ELSE LET nk == EffNKnots(nknots)
                  outside == nknots <= 0
                             \/ MaxIndexWritten(nk, EffEmin(e_min), interaction.thr) >= nknots
                  spline == CreatedSpline(alg, interaction, nknots, e_min, e_max)
                  E == KnotEnergies(nk, EffEmin(e_min), EffEmax(e_max), interaction.thr, fUseLogE)
              IN  \/ /\ outside
                     /\ Dies(call, "crashed")
                  \/ /\ fSplineMap' = MapInsert(fSplineMap, key, spline)
                     /\ builtBy' = IF key \in DOMAIN builtBy THEN builtBy
                                   ELSE [k \in DOMAIN builtBy \cup {key} |->
                                           IF k = key THEN "create" ELSE builtBy[k]]
                     /\ createdSince' = IF key \in DOMAIN builtBy THEN createdSince
                                        ELSE createdSince \cup {key}
                     /\ probeP4' = [probeP4 EXCEPT ![interaction.id] =
                                      XSecCall(interaction, E, 2 * nk)[3]]
                     /\ last' = [call EXCEPT !.status = IF outside THEN "outside" ELSE "inside",
                                             !.log = XSecCalls(interaction, E)]
                     /\ DefaultsUnchanged
                     /\ UNCHANGED <<fInitSet, files, proc, lastDocKeys, loadedSince, fInstance>>

(***************************************************************************)
(* XSecSplineList::SaveAsXml                                               *)
(***************************************************************************)
SaveAsXml(filename, save_init) ==
  /\ proc = "running" /\ calls < MaxCalls /\ calls' = calls + 1
  /\ LET args == [NoCall EXCEPT !.op = "SaveAsXml", !.filename = filename, !.flag = save_init]
         call == [args EXCEPT !.nkeys = Len(fSplineMap), !.repeat = SameCall(args, last)]
     IN  IF ~Creatable(filename)
         THEN /\ last' = [call EXCEPT !.status = "not written"]
              /\ UNCHANGED files
         ELSE /\ last' = [call EXCEPT !.status = "written"]
              /\ files' = [files EXCEPT ![filename] =
                             SavedDocument(fSplineMap, fInitSet, fUseLogE, save_init)]
  /\ ListUnchanged /\ DefaultsUnchanged
  /\ UNCHANGED <<probeP4, proc, fInstance>>

(***************************************************************************)
(* XSecSplineList::LoadFromXml.  An access outside a live buffer is        *)
(* undefined behaviour, after which the process either dies or goes on.    *)
(***************************************************************************)
LoadFromXml(filename, keep) ==
  /\ proc = "running" /\ calls < MaxCalls /\ calls' = calls + 1
  /\ LET args == [NoCall EXCEPT !.op = "LoadFromXml", !.filename = filename, !.flag = keep]
         call == [args EXCEPT !.nkeys = Len(fSplineMap), !.repeat = SameCall(args, last)]
         ld == LoadFromXmlResult(fSplineMap, fInitSet, fUseLogE, files[filename], keep)
     IN  \/ /\ ld.ub
            /\ Dies(call, "crashed")
         \/ /\ fSplineMap' = ld.map
            /\ fInitSet' = ld.initset
            /\ fUseLogE' = ld.uselog
            /\ last' = [call EXCEPT !.status = ld.status]
            /\ builtBy' = [k \in MapKeys(ld.map) |->
                             IF keep /\ k \in DOMAIN builtBy THEN builtBy[k] ELSE "load"]
            /\ lastDocKeys' = DocKeys(files[filename])
            /\ createdSince' = {}
            /\ loadedSince' = (IF keep THEN loadedSince ELSE {}) \cup DocKeys(files[filename])
            /\ UNCHANGED <<fNKnots, fEmin, fEmax, files, probeP4, proc, fInstance>>

(***************************************************************************)
(* The queries: SplineExists and GetSpline by key or by algorithm and      *)
(* interaction (status tells which), GetSplineKeys, and the stream         *)
(* operator of the list.  All of them are const members.                   *)
(***************************************************************************)
Query(call) ==
  /\ proc = "running" /\ calls < MaxCalls /\ calls' = calls + 1
  /\ last' = [call EXCEPT !.nkeys = Len(fSplineMap)]
  /\ ListUnchanged /\ DefaultsUnchanged
  /\ UNCHANGED <<files, probeP4, proc, fInstance>>

SplineExistsCall(key) ==
  Query([NoCall EXCEPT !.op = "SplineExists", !.status = "by key", !.key = key,
                       !.found = SplineExists(fSplineMap, key)])

SplineExistsAlgCall(alg, interaction) ==
  LET key == BuildSplineKey(alg, interaction)
  IN  Query([NoCall EXCEPT !.op = "SplineExists", !.status = "by alg",
                           !.alg = alg, !.int = interaction, !.key = key,
                           !.found = SplineExists(fSplineMap, key)])

GetSplineCall(key) ==
  Query([NoCall EXCEPT !.op = "GetSpline", !.status = "by key", !.key = key,
                       !.ret = GetSpline(fSplineMap, key)])

GetSplineAlgCall(alg, interaction) ==
  LET key == BuildSplineKey(alg, interaction)
  IN  Query([NoCall EXCEPT !.op = "GetSpline", !.status = "by alg",
                           !.alg = alg, !.int = interaction, !.key = key,
                           !.ret = GetSpline(fSplineMap, key)])

GetSplineKeysCall ==
  Query([NoCall EXCEPT !.op = "GetSplineKeys", !.keys = GetSplineKeys(fSplineMap)])

\* XSecSplineList::Print: the four options in the order written, then the keys
PrintList ==
  Query([NoCall EXCEPT !.op = "Print",
                       !.opts = <<fUseLogE, fNKnots, fEmin, fEmax>>,
                       !.keys = GetSplineKeys(fSplineMap)])

Next ==
  \/ \E alg \in Algs \cup {NullAlg}, interaction \in Interactions \cup {NullInt} :
       BuildSplineKeyCall(alg, interaction)
  \/ \E alg \in CreateAlgs \cup {NullAlg}, interaction \in Interactions \cup {NullInt},
        args \in CreateArgs :
       CreateSpline(alg, interaction, args[1], args[2], args[3])
  \/ \E filename \in WritePaths, save_init \in BOOLEAN : SaveAsXml(filename, save_init)
  \/ \E filename \in Paths, keep \in BOOLEAN : LoadFromXml(filename, keep)

\* the list with its files: CreateSpline, SaveAsXml, LoadFromXml
Spec == Init /\ [][Next]_vars

NextConfig ==
  \/ \E on \in BOOLEAN : SetLogE(on)
  \/ \E nk \in NKnotsArgs : SetNKnots(nk)
  \/ \E Ev \in MinEArgs : SetMinE(Ev)
  \/ \E Ev \in MaxEArgs : SetMaxE(Ev)
  \/ \E alg \in CreateAlgs, interaction \in Interactions, args \in ConfigCreateArgs :
       CreateSpline(alg, interaction, args[1], args[2], args[3])

\* the list and its list-wide values: the setters and CreateSpline
ConfigSpec == Init /\ [][NextConfig]_vars

\* the arguments of the calls of NextList
ListCreateArgs == { <<12, Rat(1, 10), RInt(10)>> }
ListPaths == {"a.xml", "b.xml"}
ListWritePaths == {"out.xml"}
ListNKnotsArgs == {9}
ListMinEArgs == {RInt(1000)}
ListMaxEArgs == {RInt(10)}
QueryKeys == { <<"X">>, <<"A", "/", "c", "/", "n">> }
QueryArgs ==
  LET a1 == CHOOSE a \in CreateAlgs : TRUE
      i1 == CHOOSE i \in Interactions : i.id = "i1"
  IN  { <<a1, i1>>, <<NullAlg, i1>>, <<a1, NullInt>> }

NextList ==
  \/ \E on \in BOOLEAN : SetLogE(on)
  \/ \E nk \in ListNKnotsArgs : SetNKnots(nk)
  \/ \E Ev \in ListMinEArgs : SetMinE(Ev)
  \/ \E Ev \in ListMaxEArgs : SetMaxE(Ev)
  \/ \E alg \in CreateAlgs, interaction \in Interactions, args \in ListCreateArgs :
       CreateSpline(alg, interaction, args[1], args[2], args[3])
  \/ \E filename \in ListWritePaths, save_init \in BOOLEAN : SaveAsXml(filename, save_init)
  \/ \E filename \in ListPaths, keep \in BOOLEAN : LoadFromXml(filename, keep)
  \/ \E key \in QueryKeys : SplineExistsCall(key)
  \/ \E q \in QueryArgs : SplineExistsAlgCall(q[1], q[2])
  \/ \E key \in QueryKeys : GetSplineCall(key)
  \/ \E q \in QueryArgs : GetSplineAlgCall(q[1], q[2])
  \/ GetSplineKeysCall
  \/ PrintList

\* every member function of the list
ListSpec == Init /\ [][NextList]_vars

\* the arguments of the calls of NextKnot: with the threshold 1 of the
\* interaction, a threshold between e_min and e_max, below e_min, equal to
\* e_min, equal to e_max and above e_max, and 15, 1, 0 and fewer knots above
\* it; and a knot count that falls back to fNKnots
KnotInteractions == { i \in Interactions : i.id = "i2" }

KnotArgs == { <<20, Rat(1, 100), RInt(10)>>,
              <<12, RInt(10), RInt(100)>>,
              <<12, RInt(1), RInt(10)>>,
              <<12, Rat(1, 10), RInt(1)>>,
              <<12, Rat(1, 100), Rat(1, 10)>>,
              <<6, Rat(1, 10), RInt(10)>>,
              <<5, Rat(1, 10), RInt(10)>>,
              <<3, Rat(1, 10), RInt(10)>>,
              <<2, Rat(1, 10), RInt(10)>> }

NextKnot ==
  \/ \E on \in BOOLEAN : SetLogE(on)
  \/ \E alg \in CreateAlgs, interaction \in KnotInteractions, args \in KnotArgs :
       CreateSpline(alg, interaction, args[1], args[2], args[3])

\* the knot distribution: CreateSpline in both modes
KnotSpec == Init /\ [][NextKnot]_vars

\* the arguments of the calls of NextInstance
InstanceNKnotsArgs == {9, 12}
InstanceMinEArgs == {RInt(-1), R0, Rat(1, 10), RInt(1000)}
InstanceMaxEArgs == {RInt(-1), R0, RInt(10)}
InstanceCreateArgs == { <<12, RInt(-1), RInt(-1)>> }

NextInstance ==
  \/ Instance
  \/ \E on \in BOOLEAN : fInstance # 0 /\ SetLogE(on)
  \/ \E nk \in InstanceNKnotsArgs : fInstance # 0 /\ SetNKnots(nk)
  \/ \E Ev \in InstanceMinEArgs : fInstance # 0 /\ SetMinE(Ev)
  \/ \E Ev \in InstanceMaxEArgs : fInstance # 0 /\ SetMaxE(Ev)
  \/ \E alg \in CreateAlgs, interaction \in Interactions, args \in InstanceCreateArgs :
       fInstance # 0 /\ CreateSpline(alg, interaction, args[1], args[2], args[3])

\* a process from its start: the list is reached through Instance
InstanceSpec == InitStatic /\ [][NextInstance]_vars

(***************************************************************************)
(* Documents for LoadFromXml other than those SaveAsXml writes: a document *)
(* with one more element, of a name the loop does not test for, and a      *)
(* document the reader stops in with an error.                             *)
(***************************************************************************)
\* <foo> 7 </foo> or <foo></foo> as the reader delivers it at a depth
UnknownElement(depth, withText) ==
  <<StartTag("foo", depth, NoAttrs)>>
    \o (IF withText THEN <<TextNode(depth + 1, RInt(7))>> ELSE <<>>)
    \o <<EndTag("foo", depth)>>

\* the depth the reader reports for a node that follows node p of the stream
\* as its child (p a start tag) or as its sibling
DepthAfter(nodes, p) ==
  IF nodes[p].type = kNodeTypeStartElement THEN nodes[p].depth + 1 ELSE nodes[p].depth

\* the document with the element put in after node p
WithUnknown(file, p, withText) ==
  [file EXCEPT !.nodes = SubSeq(file.nodes, 1, p)
                           \o UnknownElement(DepthAfter(file.nodes, p), withText)
                           \o SubSeq(file.nodes, p + 1, Len(file.nodes))]

\* the document cut after node p: the next xmlTextReaderRead returns -1
Truncated(file, p) ==
  [exists |-> TRUE, nodes |-> SubSeq(file.nodes, 1, p), ret |-> -1]

BaseDocument == InitialFiles["b.xml"]

\* the positions inside the root element: after its start tag, before its end tag
InsidePositions ==
  { p \in 1 .. Len(BaseDocument.nodes) - 1 :
      \E r \in 1 .. p : /\ BaseDocument.nodes[r].depth = 0
                        /\ BaseDocument.nodes[r].type = kNodeTypeStartElement }

UnknownVariants ==
  { WithUnknown(BaseDocument, p, withText) : p \in InsidePositions, withText \in BOOLEAN }

TruncatedVariants == { Truncated(BaseDocument, p) : p \in 0 .. Len(BaseDocument.nodes) - 1 }

\* the document with nknots="n" in every spline start tag
Redeclared(file, n) ==
  [file EXCEPT !.nodes =
     [j \in 1 .. Len(file.nodes) |->
        IF file.nodes[j].name = "spline" /\ file.nodes[j].type = kNodeTypeStartElement
        THEN [file.nodes[j] EXCEPT !.attrs.b = DecimalText(RInt(n))]
        ELSE file.nodes[j]]]

\* the document with <foo><foo><foo> 7 </foo></foo></foo> put in after node
\* p, a node at depth 1: a text at depth 4 that is in no knot
WithNestedText(file, p) ==
  [file EXCEPT !.nodes = SubSeq(file.nodes, 1, p)
                           \o <<StartTag("foo", 1, NoAttrs), StartTag("foo", 2, NoAttrs),
                                StartTag("foo", 3, NoAttrs), TextNode(4, RInt(7)),
                                EndTag("foo", 3), EndTag("foo", 2), EndTag("foo", 1)>>
                           \o SubSeq(file.nodes, p + 1, Len(file.nodes))]

\* more knots than declared, fewer knots than declared, and a text at depth 4
\* before the first and after the last spline block
MiscountedVariants ==
  { Redeclared(BaseDocument, 1), Redeclared(BaseDocument, 3),
    WithNestedText(BaseDocument, 3), WithNestedText(BaseDocument, Len(BaseDocument.nodes) - 1) }

DocPaths == {"b.xml", "badroot.xml", "out.xml"}

\* the list as made, with one of the documents, or no file, at out.xml
InitDoc ==
  /\ fInstance = 1
  /\ fSplineMap = <<>>
  /\ fInitSet = {}
  /\ fUseLogE = TRUE
  /\ fNKnots = 100
  /\ fEmin = Rat(1, 100)
  /\ fEmax = RInt(100)
  /\ files \in { [InitialFiles EXCEPT !["out.xml"] = d] :
                   d \in UnknownVariants \cup TruncatedVariants \cup MiscountedVariants
                           \cup {NoFile} }
  /\ probeP4 = [i \in IntIds |-> ZeroP4]
  /\ proc = "running"
  /\ last = NoCall
  /\ builtBy = [k \in {} |-> "load"]
  /\ lastDocKeys = {}
  /\ createdSince = {}
  /\ loadedSince = {}
  /\ calls = 0

NextDoc ==
  \E filename \in DocPaths, keep \in BOOLEAN : LoadFromXml(filename, keep)

\* LoadFromXml on documents of every shape
DocSpec == InitDoc /\ [][NextDoc]_vars

(***************************************************************************)
(* The claims.                                                             *)
(***************************************************************************)
\* the name of the document's root element: the first start tag at depth 0
DocRoot(file) ==
  LET starts == { j \in 1 .. Len(file.nodes) :
                    file.nodes[j].depth = 0 /\ file.nodes[j].type = kNodeTypeStartElement }
  IN  IF starts = {} THEN ""
      ELSE file.nodes[CHOOSE j \in starts : \A k \in starts : j <= k].name

\* what LoadFromXml(filename, false) of the file last written would give now
Reloaded == LoadFromXmlResult(fSplineMap, fInitSet, fUseLogE, files[last.filename], FALSE)

\* C1, as stated: when CreateSpline returns for a key that had an entry, the
\* entry under that key is the spline the call built, not the previous one.
C1_CreateOverwrites ==
  (last.op = "CreateSpline" /\ last.outcome = "returned" /\ last.had)
    => MapFind(fSplineMap, last.key)
         = CreatedSpline(last.alg, last.int, last.nknots, last.e_min, last.e_max)

\* C2: the list holds at most one entry per key, and a CreateSpline that
\* repeats the call before it leaves the number of keys as it found it.
C2_OneEntryPerKey ==
  /\ \A i, j \in 1 .. Len(fSplineMap) : fSplineMap[i][1] = fSplineMap[j][1] => i = j
  /\ (last.op = "CreateSpline" /\ last.outcome = "returned" /\ last.repeat)
       => Len(GetSplineKeys(fSplineMap)) = last.nkeys

C2_Witness ==
  /\ last.op = "CreateSpline" /\ last.outcome = "returned" /\ last.repeat
  /\ Len(GetSplineKeys(fSplineMap)) >= 2

\* C3, as stated: LoadFromXml of a path that cannot be opened returns a
\* status other than kXmlOK.
C3_NotFoundStatus ==
  (last.op = "LoadFromXml" /\ last.outcome = "returned" /\ ~files[last.filename].exists)
    => last.status # "kXmlOK"

\* C4, as stated: LoadFromXml of a path that cannot be opened leaves the
\* key-to-spline mapping as it was, whatever keep is.
C4_StoreUntouched ==
  [][(last'.op = "LoadFromXml" /\ ~files[last'.filename].exists)
       => fSplineMap' = fSplineMap]_vars

\* C4, amended: LoadFromXml of a path that cannot be opened leaves the
\* mapping as it was when keep is true and leaves it empty when keep is false.
C4_UnopenedLoad ==
  [][(last'.op = "LoadFromXml" /\ ~files[last'.filename].exists)
       => IF last'.flag THEN fSplineMap' = fSplineMap ELSE fSplineMap' = <<>>]_vars

C4_Witness ==
  /\ last.op = "LoadFromXml" /\ ~files[last.filename].exists
  /\ ~last.flag /\ last.nkeys > 0 /\ fSplineMap = <<>>

\* C5: LoadFromXml of a document whose root element is not
\* genie_xsec_spline_list returns kXmlInvalidRoot; with keep the entries are
\* those present before the call, without keep the list is empty.
C5_InvalidRoot ==
  [][(/\ last'.op = "LoadFromXml"
      /\ files[last'.filename].exists
      /\ DocRoot(files[last'.filename]) # "genie_xsec_spline_list")
       => /\ last'.status = "kXmlInvalidRoot"
          /\ IF last'.flag THEN fSplineMap' = fSplineMap ELSE fSplineMap' = <<>>]_vars

C5_Witness ==
  /\ last.op = "LoadFromXml" /\ last.status = "kXmlInvalidRoot"
  /\ last.flag /\ last.nkeys > 0 /\ Len(fSplineMap) = last.nkeys

\* C6, as stated: when every entry of the list was built by CreateSpline,
\* SaveAsXml to a path and then LoadFromXml(path, false) give a list with
\* the same keys and, for every key, the same knots.
C6_RoundTrip ==
  (/\ last.op = "SaveAsXml" /\ last.status = "written"
   /\ \A k \in DOMAIN builtBy : builtBy[k] = "create")
    => Reloaded.map = fSplineMap

\* C7, as stated: SaveAsXml(path, false) writes exactly the entries whose key
\* is not in fInitSet and SaveAsXml(path, true) writes every entry; so after
\* a load of a document A, a CreateSpline of one key not in A and
\* SaveAsXml(path, false), LoadFromXml(path, false) gives exactly that key.
C7_SelectiveSave ==
  (last.op = "SaveAsXml" /\ last.status = "written")
    => /\ DocKeys(files[last.filename])
            = IF last.flag THEN MapKeys(fSplineMap) ELSE MapKeys(fSplineMap) \ fInitSet
       /\ \A k \in createdSince :
            (/\ ~last.flag
             /\ createdSince = {k}
             /\ lastDocKeys # {} /\ k \notin lastDocKeys
             /\ MapKeys(fSplineMap) = lastDocKeys \cup {k}
             /\ lastDocKeys \subseteq fInitSet)
              => MapKeys(Reloaded.map) = {k}

\* C8, as stated: fInitSet is a subset of the keys of the list.
C8_InitSetWithinKeys == fInitSet \subseteq MapKeys(fSplineMap)

\* C9, as stated: CreateSpline with a null algorithm or a null interaction
\* returns, inserts nothing (nothing under the empty key either) and leaves
\* the list as it was.
C9_NullIsNoOp ==
  (last.op = "CreateSpline" /\ (last.alg = NullAlg \/ last.int = NullInt))
    => /\ last.outcome = "returned"
       /\ proc = "running"
       /\ Len(fSplineMap) = last.nkeys
       /\ MapCount(fSplineMap, EmptyString) = 0

\* C10: BuildSplineKey gives name "/" config "/" interaction string when both
\* arguments are there, so that equal triples give equal keys, gives the
\* empty string when one is null, and changes nothing of the list.
C10_KeyFormat ==
  [][last'.op = "BuildSplineKey"
       => /\ IF last'.alg # NullAlg /\ last'.int # NullInt
             THEN last'.key = last'.alg.name \o <<"/">> \o last'.alg.config
                                \o <<"/">> \o last'.int.str
             ELSE last'.key = <<>>
          /\ \A a \in Algs, i \in Interactions :
               (/\ a.name = last'.alg.name /\ a.config = last'.alg.config
                /\ i.str = last'.int.str)
                 => BuildSplineKey(a, i) = last'.key
          /\ fSplineMap' = fSplineMap /\ fInitSet' = fInitSet]_vars

C10_Witness ==
  /\ last.op = "BuildSplineKey" /\ last.alg # NullAlg /\ last.int # NullInt
  /\ Len(last.key) = 5 /\ Len(fSplineMap) > 0

\* C11, as stated: in every reachable state the list-wide minimum energy is
\* strictly below the list-wide maximum energy.
C11_MinBelowMax == RLess(fEmin, fEmax)

\* C12, as stated: every spline of the list has at least 10 knots.
C12_AtLeastTenKnots ==
  \A i \in 1 .. Len(fSplineMap) : Len(fSplineMap[i][2]) >= 10

\* C13: SetNKnots(n) leaves the list-wide knot count at exactly 10 when
\* n < 10 and at n when n >= 10; the knot count is at least 10 in every state.
C13_KnotCountClamped ==
  /\ fNKnots >= 10
  /\ last.op = "SetNKnots"
       => fNKnots = IF last.nknots < 10 THEN 10 ELSE last.nknots

C13_Witness ==
  /\ last.op = "SetNKnots" /\ last.nknots <= 0 /\ fNKnots = 10

\* C14, as stated: CreateSpline with nknots <= 2 builds a spline with the
\* list-wide knot count, a negative e_min or e_max is replaced by the
\* list-wide value, and other values are used as given: the spline stored
\* for a new key has that many knots, starts at that e_min and, when two or
\* more knots lie at or above the threshold, ends at that e_max.
C14_FallBackToDefaults ==
  (/\ last.op = "CreateSpline" /\ last.alg # NullAlg /\ last.int # NullInt
   /\ RLess(EffEmin(last.e_min), EffEmax(last.e_max)))
    => /\ last.outcome = "returned"
       /\ ~last.had
            => LET spline == MapFind(fSplineMap, last.key)
                   n  == IF last.nknots <= 2 THEN fNKnots ELSE last.nknots
                   lo == IF RLess(last.e_min, R0) THEN fEmin ELSE last.e_min
                   hi == IF RLess(last.e_max, R0) THEN fEmax ELSE last.e_max
               IN  /\ Len(spline) = n
                   /\ spline[1][1] = lo
                   /\ n - NKnotsBelow(lo, last.int.thr) >= 2 => spline[n][1] = hi

\* C15: a CreateSpline whose e_min and e_max, after the fall-back to the
\* list-wide values, do not satisfy e_min < e_max does not return and has no
\* effect: the list, the initial set and the probe momenta of the
\* interactions are as before the call.
C15_BadBoundsAbort ==
  [][(last'.op = "CreateSpline" /\ ~RLess(EffEmin(last'.e_min), EffEmax(last'.e_max)))
       => /\ last'.outcome # "returned" /\ proc' # "running"
          /\ fSplineMap' = fSplineMap /\ fInitSet' = fInitSet
          /\ probeP4' = probeP4]_vars

C15_Witness ==
  /\ last.op = "CreateSpline" /\ proc = "aborted"
  /\ RLess(last.e_min, R0) /\ ~RLess(fEmin, fEmax)
  /\ Len(fSplineMap) > 0
  /\ \E i \in IntIds : probeP4[i] # ZeroP4

\* C16: GetSpline returns the null pointer exactly when SplineExists is
\* false for the key and otherwise the spline stored under the key; the
\* forms taking an algorithm and an interaction use the key BuildSplineKey
\* gives; neither GetSpline nor SplineExists changes the list, the initial
\* set or the list-wide values.
C16_GetAndExists ==
  [][last'.op \in {"GetSpline", "SplineExists"}
       => LET key == last'.key
              present == \E i \in 1 .. Len(fSplineMap) : fSplineMap[i][1] = key
          IN  /\ last'.status = "by alg"
                   => key = IF last'.alg # NullAlg /\ last'.int # NullInt
                            THEN last'.alg.name \o <<"/">> \o last'.alg.config
                                   \o <<"/">> \o last'.int.str
                            ELSE <<>>
              /\ last'.op = "SplineExists" => last'.found = present
              /\ last'.op = "GetSpline"
                   => /\ (last'.ret = <<>>) <=> ~present
                      /\ present
                           => \E i \in 1 .. Len(fSplineMap) :
                                fSplineMap[i] = <<key, last'.ret[1]>>
              /\ fSplineMap' = fSplineMap /\ fInitSet' = fInitSet
              /\ <<fUseLogE', fNKnots', fEmin', fEmax'>> = <<fUseLogE, fNKnots, fEmin, fEmax>>]_vars

C16_Witness ==
  /\ last.op = "GetSpline" /\ last.status = "by alg"
  /\ last.ret # <<>> /\ Len(fSplineMap) >= 2

\* the k-th smallest member of a set of positions
Nth(S, k) == CHOOSE j \in S : Cardinality({i \in S : i < j}) = k - 1

\* the knots of the spline block of that name in a document, in document
\* order: the numbers of the text nodes that follow an E and an xsec tag
DocKnots(file, name) ==
  LET nodes == file.nodes
      isEnd(j) == nodes[j].name = "spline" /\ nodes[j].type = kNodeTypeEndElement
      s == CHOOSE j \in 1 .. Len(nodes) :
             /\ nodes[j].name = "spline" /\ nodes[j].type = kNodeTypeStartElement
             /\ nodes[j].attrs.a = name
      e == CHOOSE j \in s .. Len(nodes) : isEnd(j) /\ \A k \in s .. j - 1 : ~isEnd(k)
      after(tag) == { j \in s + 1 .. e :
                        /\ nodes[j].name = "#text" /\ nodes[j].depth = 4
                        /\ nodes[j - 1].name = tag
                        /\ nodes[j - 1].type = kNodeTypeStartElement }
  IN  [k \in 1 .. Cardinality(after("E")) |->
         <<nodes[Nth(after("E"), k)].value[2], nodes[Nth(after("xsec"), k)].value[2]>>]

\* C17: after LoadFromXml returns kXmlOK every spline block name of the
\* document is in fInitSet, with keep and without.
C17_LoadedNamesInitial ==
  (last.op = "LoadFromXml" /\ last.outcome = "returned" /\ last.status = "kXmlOK")
    => DocKeys(files[last.filename]) \subseteq fInitSet

C17_Witness ==
  /\ last.op = "LoadFromXml" /\ last.status = "kXmlOK" /\ last.flag
  /\ last.nkeys > 0 /\ Len(fSplineMap) = last.nkeys
  /\ DocKeys(files[last.filename]) # {}

\* C18: after LoadFromXml(filename, false) returns kXmlOK the keys of the list
\* are exactly the spline block names of the document.
C18_NonMergingLoadKeys ==
  (/\ last.op = "LoadFromXml" /\ last.outcome = "returned"
   /\ last.status = "kXmlOK" /\ ~last.flag)
    => /\ MapKeys(fSplineMap) = DocKeys(files[last.filename])
       /\ Len(GetSplineKeys(fSplineMap)) = Cardinality(DocKeys(files[last.filename]))

C18_Witness ==
  /\ last.op = "LoadFromXml" /\ last.status = "kXmlOK" /\ ~last.flag
  /\ last.nkeys > Len(fSplineMap) /\ Len(fSplineMap) > 0

\* C19: no call other than LoadFromXml(filename, false) removes a key: after
\* every other call, LoadFromXml(filename, true) among them, every key
\* present before the call is present.
C19_KeysNeverRemoved ==
  [][(last'.op # "LoadFromXml" \/ last'.flag)
       => MapKeys(fSplineMap) \subseteq MapKeys(fSplineMap')]_vars

C19_Witness ==
  /\ last.op = "LoadFromXml" /\ last.status = "kXmlOK" /\ last.flag
  /\ last.nkeys > 0 /\ Len(fSplineMap) > last.nkeys

\* C20, as stated: after LoadFromXml returns kXmlOK, GetSpline of every
\* spline block name of the document gives a spline whose knots are the
\* (E, xsec) pairs of that block in document order, also when keep is true
\* and the name had an entry before the call.
C20_LoadedKnots ==
  (/\ last.op = "LoadFromXml" /\ last.outcome = "returned"
   /\ last.status = "kXmlOK" /\ files[last.filename].exists)
    => \A name \in DocKeys(files[last.filename]) :
         GetSpline(fSplineMap, name) = <<DocKnots(files[last.filename], name)>>

\* C23: GetSplineKeys returns every key of the list exactly once, in ascending
\* order of the strings, as many keys as the list has entries, whichever of
\* CreateSpline and LoadFromXml built the entries and in whichever order.
C23_KeysSorted ==
  last.op = "GetSplineKeys"
    => /\ Len(last.keys) = Len(fSplineMap)
       /\ { last.keys[i] : i \in 1 .. Len(last.keys) } = MapKeys(fSplineMap)
       /\ \A i, j \in 1 .. Len(last.keys) : i < j => StrLess(last.keys[i], last.keys[j])

C23_Witness ==
  /\ last.op = "GetSplineKeys" /\ Len(last.keys) >= 2
  /\ builtBy[last.keys[1]] = "create" /\ builtBy[last.keys[Len(last.keys)]] = "load"
  /\ createdSince # {}

\* C25: SetLogE, SetNKnots, SetMinE and SetMaxE leave the keys of the list, the
\* spline under each key and the initial set as they found them.
C25_SettersKeepList ==
  [][last'.op \in {"SetLogE", "SetNKnots", "SetMinE", "SetMaxE"}
       => fSplineMap' = fSplineMap /\ fInitSet' = fInitSet]_vars

C25_Witness ==
  /\ last.op \in {"SetLogE", "SetNKnots", "SetMinE", "SetMaxE"}
  /\ Len(fSplineMap) >= 2 /\ fInitSet # {} /\ createdSince # {}

\* C27: SaveAsXml to a path that cannot be created writes no file, and every
\* SaveAsXml, written or not, leaves the list, the initial set and the four
\* list-wide values as it found them.
C27_SaveChangesNothing ==
  [][last'.op = "SaveAsXml"
       => /\ fSplineMap' = fSplineMap /\ fInitSet' = fInitSet
          /\ fUseLogE' = fUseLogE /\ fNKnots' = fNKnots
          /\ fEmin' = fEmin /\ fEmax' = fEmax
          /\ (last'.filename \notin DOMAIN files
                => files' = files /\ last'.status = "not written")]_vars

C27_Witness ==
  /\ last.op = "SaveAsXml" /\ last.filename \notin DOMAIN files
  /\ last.status = "not written" /\ Len(fSplineMap) >= 1 /\ fInitSet # {}

\* C24: SetMinE(Ev) and SetMaxE(Ev) leave fEmin, respectively fEmax, as it was
\* when Ev <= 0 and set it to Ev when Ev > 0, and neither changes any other
\* list-wide value, the list, the initial set or the files.
C24_EnergySetters ==
  [][/\ last'.op = "SetMinE"
          => /\ fEmin' = IF RLess(R0, last'.e_min) THEN last'.e_min ELSE fEmin
             /\ UNCHANGED <<fEmax, fNKnots, fUseLogE, fSplineMap, fInitSet, files,
                            probeP4, fInstance>>
     /\ last'.op = "SetMaxE"
          => /\ fEmax' = IF RLess(R0, last'.e_max) THEN last'.e_max ELSE fEmax
             /\ UNCHANGED <<fEmin, fNKnots, fUseLogE, fSplineMap, fInitSet, files,
                            probeP4, fInstance>>]_vars

C24_Witness ==
  /\ last.op = "SetMinE" /\ RLess(last.e_min, R0)
  /\ fEmin = Rat(1, 10) /\ fEmax = RInt(10)

\* C26: every call of Instance returns the one list: the first call makes it
\* with fUseLogE true, 100 knots, fEmin 0.01, fEmax 100, no entries and an
\* empty initial set; a later call returns the same list with what was
\* written to it.
C26_OneInstance ==
  [][last'.op = "Instance"
       => /\ last'.ptr = fInstance' /\ fInstance' # 0
          /\ fInstance # 0
               => /\ fInstance' = fInstance
                  /\ UNCHANGED <<fSplineMap, fInitSet, fUseLogE, fNKnots, fEmin, fEmax>>
          /\ fInstance = 0
               => /\ fUseLogE' = TRUE /\ fNKnots' = 100
                  /\ fEmin' = Rat(1, 100) /\ fEmax' = RInt(100)
                  /\ fSplineMap' = <<>> /\ fInitSet' = {}]_vars

C26_Witness ==
  /\ last.op = "Instance" /\ last.ptr = 1
  /\ fNKnots = 12 /\ Len(fSplineMap) = 1

\* C21, as stated: LoadFromXml returns kXmlNotParsed when the reader stops
\* with an error in a document whose root element is valid, and returns
\* kXmlOK only when the file was opened, its root element is valid and the
\* reader reached its end.
C21_LoadStatus ==
  (last.op = "LoadFromXml" /\ last.outcome = "returned")
    => LET file == files[last.filename]
           valid == DocRoot(file) = "genie_xsec_spline_list"
       IN  /\ (file.exists /\ valid /\ file.ret # 0) => last.status = "kXmlNotParsed"
           /\ last.status = "kXmlOK" => (file.exists /\ valid /\ file.ret = 0)

\* C22, as stated: LoadFromXml of a document with one more element of an
\* unknown name, with or without text, anywhere inside the root element,
\* returns the status and leaves the list (keys and knots) that LoadFromXml
\* of the document without that element would.
C22_UnknownIgnored ==
  [][(last'.op = "LoadFromXml" /\ last'.filename = "out.xml"
        /\ files["out.xml"] \in UnknownVariants)
       => LET ld == LoadFromXmlResult(fSplineMap, fInitSet, fUseLogE, BaseDocument, last'.flag)
          IN  /\ last'.outcome = "returned"
              /\ last'.status = ld.status
              /\ fSplineMap' = ld.map]_vars

\* the knot energies the last CreateSpline distributed, and what it
\* distributed them with
PlannedKnots ==
  KnotEnergies(EffNKnots(last.nknots), EffEmin(last.e_min), EffEmax(last.e_max),
               last.int.thr, fUseLogE)

PlannedBelow == NKnotsBelow(EffEmin(last.e_min), last.int.thr)

ThresholdBetween ==
  RLess(EffEmin(last.e_min), last.int.thr) /\ RLess(last.int.thr, EffEmax(last.e_max))

\* x < y on doubles: false with a NaN; 10^q against a power of ten by exponent
Exponent(v) == IF v[1] = "P" THEN <<"R", v[2], v[3]>> ELSE Log10(v)

ValLess(x, y) ==
  IF x[1] = "NaN" \/ y[1] = "NaN" THEN FALSE
  ELSE IF x[1] = "R" /\ y[1] = "R" THEN RLess(x, y)
  ELSE RLess(Exponent(x), Exponent(y))

Increasing(E) == \A k \in 1 .. Len(E) - 1 : ValLess(E[k], E[k + 1])

\* C28, as stated: every CreateSpline with an effective knot count of 3 or
\* more and e_min < e_max returns having distributed exactly that many knot
\* energies, each greater than the one before, whatever the threshold and in
\* both modes.
C28_KnotsIncrease ==
  (last.op = "CreateSpline" /\ EffNKnots(last.nknots) >= 3
     /\ RLess(EffEmin(last.e_min), EffEmax(last.e_max)))
    => /\ last.outcome = "returned"
       /\ Len(PlannedKnots) = EffNKnots(last.nknots)
       /\ Increasing(PlannedKnots)

LinearLayout(E, n, e_min, e_max, Ethr) ==
  /\ Len(E) = n /\ n >= 6
  /\ E[1] = e_min
  /\ \A i \in 0 .. 4 : E[i + 1] = RAdd(e_min, RMulInt(RDivInt(RSub(Ethr, e_min), 5), i))
  /\ E[6] = Ethr
  /\ \A k \in 6 .. n - 1 : E[k][1] = "R" /\ E[k + 1][1] = "R"
                             /\ RSub(E[k + 1], E[k]) = RSub(E[7], E[6])
  /\ E[n] = e_max

C31_IntegralPerKnot ==
  (last.op = "CreateSpline" /\ last.outcome = "returned")
    => LET E == PlannedKnots
           n == Len(E)
           p4(k) == ProbeP4(E[k], last.int.mass)
           stored == MapFind(fSplineMap, last.key)
       IN  /\ Len(last.log) = 2 * n
           /\ \A k \in 1 .. n : /\ last.log[2 * k - 1] = <<"SetProbeP4", k, p4(k)>>
                                 /\ last.log[2 * k] = <<"Integral", k, p4(k)>>
           /\ probeP4[last.int.id] = p4(n)
           /\ Len(stored) = n
           /\ \A k \in 1 .. n : stored[k][2] = Integral(last.alg, last.int, p4(k))

\* C32: the document SaveAsXml writes has one spline block for each entry it
\* writes (all entries, or with save_init false those whose key is not in
\* fInitSet), each once and in ascending order of the keys, after the start
\* tag of the root element genie_xsec_spline_list with version "2.00" and
\* uselog 1 or 0 as fUseLogE is true or false, and before its end tag, which
\* is the last node.
C32_SavedBlocks ==
  (last.op = "SaveAsXml" /\ last.status = "written")
    => LET nodes == files[last.filename].nodes
           tags(name, type) == { j \in 1 .. Len(nodes) :
                                   nodes[j].name = name /\ nodes[j].type = type }
           starts == tags("spline", kNodeTypeStartElement)
           ends == tags("spline", kNodeTypeEndElement)
           roots == tags("genie_xsec_spline_list", kNodeTypeStartElement)
           written == { k \in MapKeys(fSplineMap) : last.flag \/ k \notin fInitSet }
           name(i) == nodes[Nth(starts, i)].attrs.a
       IN  /\ Cardinality(starts) = Cardinality(written)
           /\ Cardinality(ends) = Cardinality(written)
           /\ { name(i) : i \in 1 .. Cardinality(starts) } = written
           /\ \A i, j \in 1 .. Cardinality(starts) : i < j => StrLess(name(i), name(j))
           /\ Cardinality(roots) = 1
           /\ \A r \in roots :
                /\ nodes[r].depth = 0
                /\ nodes[r].attrs.a = <<"2", ".", "0", "0">>
                /\ nodes[r].attrs.b = DecimalText(RInt(IF fUseLogE THEN 1 ELSE 0))
                /\ \A j \in starts \cup ends : r < j /\ j < Len(nodes)
                /\ \A j \in 1 .. r - 1 : nodes[j].type # kNodeTypeStartElement
           /\ nodes[Len(nodes)] = EndTag("genie_xsec_spline_list", 0)

C32_Witness ==
  /\ last.op = "SaveAsXml" /\ last.status = "written" /\ ~fUseLogE
  /\ Len(fSplineMap) >= 2 /\ DocKeys(files[last.filename]) = MapKeys(fSplineMap)

\* C33, as stated: an entry whose spline CreateSpline built, and whose key is
\* in none of the documents loaded since the list was last cleared, is not in
\* fInitSet, and SaveAsXml(filename, false) writes it.
C33_CreatedNotInitial ==
  \A k \in MapKeys(fSplineMap) :
    (builtBy[k] = "create" /\ k \notin loadedSince)
      => /\ k \notin fInitSet
         /\ (last.op = "SaveAsXml" /\ last.status = "written" /\ ~last.flag)
              => k \in DocKeys(files[last.filename])

\* the uselog attribute of the document's root element: that of the first
\* start tag at depth 0
DocRootUseLog(file) ==
  LET starts == { j \in 1 .. Len(file.nodes) :
                    file.nodes[j].depth = 0 /\ file.nodes[j].type = kNodeTypeStartElement }
  IN  file.nodes[CHOOSE j \in starts : \A k \in starts : j <= k].attrs.b

\* C37: a LoadFromXml that returns from a document with a valid root element
\* leaves fUseLogE true when the root's uselog attribute is 1 and false when
\* it is anything else, and leaves fNKnots, fEmin and fEmax as they were; and
\* the document a SaveAsXml writes, loaded with fUseLogE at the other value,
\* gives back the fUseLogE of the time it was written.
C37_LoadSetsLogE ==
  [][/\ (/\ last'.op = "LoadFromXml" /\ last'.outcome = "returned"
         /\ files[last'.filename].exists
         /\ DocRoot(files[last'.filename]) = "genie_xsec_spline_list")
          => /\ fUseLogE' = (DocRootUseLog(files[last'.filename]) = DecimalText(RInt(1)))
             /\ UNCHANGED <<fNKnots, fEmin, fEmax>>
     /\ (last'.op = "SaveAsXml" /\ last'.status = "written")
          => LoadFromXmlResult(fSplineMap', fInitSet', ~fUseLogE', files'[last'.filename],
                               FALSE).uselog = fUseLogE]_vars

C37_Witness ==
  /\ last.op = "LoadFromXml" /\ last.outcome = "returned" /\ last.filename = "out.xml"
  /\ files["out.xml"].exists /\ DocRootUseLog(files["out.xml"]) = DecimalText(R0)
  /\ ~fUseLogE /\ <<"A", "/", "c", "/", "n">> \in fInitSet /\ <<"X">> \in fInitSet

\* C34, as stated: in every LoadFromXml, of every document, each write of a
\* knot value goes to an index iknot with 0 <= iknot < nknots of the spline
\* block that is open, between its start tag and its end tag.
C34_KnotWritesInside ==
  [][last'.op = "LoadFromXml"
       => ~LoadFromXmlResult(fSplineMap, fInitSet, fUseLogE, files[last'.filename],
                             last'.flag).ub]_vars

\* the nodes of the spline block of that name in a document: the positions
\* from its start tag to its end tag
DocBlock(file, name) ==
  LET nodes == file.nodes
      isEnd(j) == nodes[j].name = "spline" /\ nodes[j].type = kNodeTypeEndElement
      s == CHOOSE j \in 1 .. Len(nodes) :
             /\ nodes[j].name = "spline" /\ nodes[j].type = kNodeTypeStartElement
             /\ nodes[j].attrs.a = name
      e == CHOOSE j \in s .. Len(nodes) : isEnd(j) /\ \A k \in s .. j - 1 : ~isEnd(k)
  IN  s .. e

\* C35, as stated: a spline a LoadFromXml inserted has as many knots as its
\* spline block has knot elements, and the energy and the cross section of
\* each knot are numbers of texts of that block: none is a value that was
\* never assigned.
C35_LoadedKnotsAssigned ==
  (last.op = "LoadFromXml" /\ last.outcome = "returned" /\ ~last.flag)
    => \A i \in 1 .. Len(fSplineMap) :
         LET file == files[last.filename]
             block == DocBlock(file, fSplineMap[i][1])
             knots == { j \in block : /\ file.nodes[j].name = "knot"
                                      /\ file.nodes[j].type = kNodeTypeEndElement }
             texts == { file.nodes[j].value[2] :
                          j \in { b \in block : file.nodes[b].name = "#text"
                                                /\ file.nodes[b].type = 3 } }
             spline == fSplineMap[i][2]
         IN  /\ Len(spline) = Cardinality(knots)
             /\ \A k \in 1 .. Len(spline) : spline[k][1] \in texts /\ spline[k][2] \in texts

\* C36, as stated: in every CreateSpline that gets to its knot loops, every
\* index of E[] and xsec[] written or read is inside the arrays as declared,
\* whatever nknots (2 or less, 3 to 5, or more) and the threshold are.
C36_IndicesInside ==
  (last.op = "CreateSpline" /\ last.alg # NullAlg /\ last.int # NullInt
     /\ AssertHolds(last.e_min, last.e_max))
    => /\ last.nknots > 0
       /\ MaxIndexWritten(EffNKnots(last.nknots), EffEmin(last.e_min), last.int.thr)
            < last.nknots
====
